---------------------------- MODULE Spec2Model ----------------------------
(***************************************************************************)
(* Model of scripts/quantize-models.py: the per-model quantization         *)
(* pipeline (quantize_model), the verifier (verify_model) and the three    *)
(* modes of main (list, verify, quantize) acting on the model tree under   *)
(* MODELS_DIR.  The filesystem is a function from paths to nodes; the      *)
(* external collaborators (quant_pre_process, quantize_dynamic,            *)
(* InferenceSession) either complete or raise, chosen nondeterministically. *)
(***************************************************************************)
EXTENDS Integers, Sequences, FiniteSets, TLC

(***************************************************************************)
(* Bounds of the model.                                                    *)
(***************************************************************************)
\* longest list of positional model names given on the command line
MaxArgs == 2
\* largest file size (files have a size in 0..MaxSize)
MaxSize == 1
\* the exporter's return codes are 0..MaxReturnCode
MaxReturnCode == 1

Sizes == 0..MaxSize

(***************************************************************************)
(* Paths.  A path is the sequence of its components.                       *)
(***************************************************************************)
\* MODELS_DIR = Path(__file__).parent.parent / "models"
MODELS_DIR == <<"models">>

\* The configured model list, cut to its first two names.
MODELS == <<"dima806_ai_real", "smogy">>

ModelNames == {MODELS[k] : k \in 1..Len(MODELS)}

Parent(p) == SubSeq(p, 1, Len(p) - 1)

\* model_dir = MODELS_DIR / model_name
ModelDir(m) == MODELS_DIR \o <<m>>

RootInput(m) == ModelDir(m) \o <<"model.onnx">>
OnnxDir(m) == ModelDir(m) \o <<"onnx">>
SubInput(m) == OnnxDir(m) \o <<"model.onnx">>
OutputPath(m) == ModelDir(m) \o <<"model_int8.onnx">>
RootTemp(m) == ModelDir(m) \o <<"model_preprocessed.onnx">>
SubTemp(m) == OnnxDir(m) \o <<"model_preprocessed.onnx">>
RootLink(m) == ModelDir(m) \o <<"model_quantized.onnx">>
SubLink(m) == OnnxDir(m) \o <<"model_quantized.onnx">>

ModelPaths(m) ==
    { ModelDir(m), RootInput(m), OnnxDir(m), SubInput(m), OutputPath(m),
      RootTemp(m), SubTemp(m), RootLink(m), SubLink(m) }

Paths == UNION { ModelPaths(m) : m \in ModelNames }

\* The pieces of a component's text, fine enough to find the word "onnx".
Pieces(c) ==
    CASE c = "model.onnx" -> <<"model", ".", "onnx">>
      [] c = "model_int8.onnx" -> <<"model_int8", ".", "onnx">>
      [] c = "model_preprocessed.onnx" -> <<"model_preprocessed", ".", "onnx">>
      [] c = "model_quantized.onnx" -> <<"model_quantized", ".", "onnx">>
      [] OTHER -> <<c>>

\* str(path): the components joined by "/"
RECURSIVE Str(_)
Str(p) ==
    IF p = <<>> THEN <<>>
    ELSE IF Len(p) = 1 THEN Pieces(p[1])
    ELSE Pieces(p[1]) \o <<"/">> \o Str(Tail(p))

\* word in text
Contains(text, word) == \E k \in 1..Len(text) : text[k] = word

\* length of the longest common prefix of two paths
RECURSIVE CommonLen(_, _)
CommonLen(a, b) ==
    IF a = <<>> \/ b = <<>> \/ Head(a) # Head(b) THEN 0
    ELSE 1 + CommonLen(Tail(a), Tail(b))

\* a faulty relpath: the link text is the bare file name, whatever the
\* directory the link lies in
relpath_nameOnly(path, start) == <<path[Len(path)]>>

\* os.path.relpath(path, start)
relpath(path, start) ==
    LET k == CommonLen(path, start)
    IN  [j \in 1..(Len(start) - k) |-> ".."] \o SubSeq(path, k + 1, Len(path))

\* the path a relative link text names, seen from directory dir
RECURSIVE Normalize(_, _)
Normalize(dir, text) ==
    IF text = <<>> THEN dir
    ELSE IF Head(text) = ".." THEN Normalize(Parent(dir), Tail(text))
    ELSE Normalize(Append(dir, Head(text)), Tail(text))

(***************************************************************************)
(* Filesystem nodes.                                                       *)
(***************************************************************************)
Absent == [k |-> "none", size |-> 0, data |-> "none", to |-> <<>>]
Dir == [k |-> "dir", size |-> 0, data |-> "none", to |-> <<>>]
File(s, d) == [k |-> "file", size |-> s, data |-> d, to |-> <<>>]
Link(t) == [k |-> "link", size |-> 0, data |-> "none", to |-> t]

At(f, p) == IF p \in DOMAIN f THEN f[p] ELSE Absent

\* the node a path names once a symlink at it is followed
Resolve(f, p) ==
    IF At(f, p).k = "link" THEN At(f, Normalize(Parent(p), At(f, p).to))
    ELSE At(f, p)

\* Path.exists(): follows symlinks, false for a dangling one
Exists(f, p) == Resolve(f, p).k \in {"file", "dir"}

\* Path.is_symlink()
IsSymlink(f, p) == At(f, p).k = "link"

\* Path.unlink()
Unlink(f, p) == [f EXCEPT ![p] = Absent]

\* a collaborator writing a file at p
WriteFile(f, p, s, d) == [f EXCEPT ![p] = File(s, d)]

\* a faulty locator: the onnx/ candidate preferred to the primary one
InputPath_fallbackFirst(f, m) ==
    IF Exists(f, SubInput(m)) THEN SubInput(m) ELSE RootInput(m)

\* get_model_paths(model_name)[0]
InputPath(f, m) ==
    IF Exists(f, RootInput(m)) THEN RootInput(m) ELSE SubInput(m)

\* get_model_paths(model_name)
get_model_paths(f, m) == <<InputPath(f, m), OutputPath(m)>>

\* get_model_size(path), in bytes rather than MB (zero exactly when the MB
\* value is zero)
get_model_size(f, p) == IF Exists(f, p) THEN Resolve(f, p).size ELSE 0


(***************************************************************************)
(* State.                                                                  *)
(***************************************************************************)
VARIABLES
    fs,             \* the filesystem: path -> node
    args,           \* main: the parsed command line
    pc,             \* main: where it is
    idx,            \* main: position in the list being iterated (1-based)
    success,        \* main: success counter
    total_fp32,     \* main: running total of input sizes
    total_int8,     \* main: running total of output sizes
    printed,        \* main: the report lines printed so far in this run
    results,        \* main: what quantize_model / verify_model returned, in order
    qpc,            \* quantize_model: where it is
    input_path,     \* quantize_model: local
    output_path,    \* quantize_model: local
    input_size,     \* quantize_model: local
    quantize_input, \* quantize_model: local
    calls,          \* collaborator invocations of the current or last call
    out,            \* lines printed by the current or last quantize_model call
    pre,            \* the filesystem when the current or last call was entered
    exc             \* the exception last raised in this run of main ("none" if none)

\* convert-to-onnx.py, a program of its own
VARIABLES
    cpc,            \* main: where it is
    cidx,           \* main: position in MODELS (1-based)
    success_count,  \* main: local
    fail_count,     \* main: local
    deps,           \* how optimum came to be importable ("unknown" before the test)
    attempts,       \* the exporter invocations so far, in order, with their outcome
    exported,       \* output_name -> what the exporter has left in its directory
    cprinted        \* main: the summary lines printed

mainVars == <<args, pc, idx, success, total_fp32, total_int8, printed, results>>
localVars == <<qpc, input_path, output_path, input_size, quantize_input>>
quantizeVars ==
    <<fs, args, pc, idx, success, total_fp32, total_int8, printed, results,
      qpc, input_path, output_path, input_size, quantize_input,
      calls, out, pre, exc>>
convertVars ==
    <<cpc, cidx, success_count, fail_count, deps, attempts, exported, cprinted>>
vars == <<quantizeVars, convertVars>>

NoPath == <<>>

(***************************************************************************)
(* Initial filesystems.  A model directory is either missing or holds any  *)
(* combination of the files the script looks at; a file lies in a          *)
(* directory that exists.                                                  *)
(***************************************************************************)
InputNodes == {Absent} \cup { File(s, "fp32") : s \in Sizes }
OutputNodes == {Absent} \cup { File(s, "int8") : s \in 1..MaxSize }
\* what may already lie at onnx/model_quantized.onnx: nothing, the alias of an
\* earlier run, an alias with another target, or a regular file
AliasNodes ==
    { Absent, Link(<<"..", "model_int8.onnx">>), Link(<<"model.onnx">>),
      File(1, "other") }

\* what the onnx/ subdirectory may hold: <<directory, input, alias>>
SubStates ==
    {<<Absent, Absent, Absent>>}
        \cup { <<Dir, si, al>> : si \in InputNodes, al \in AliasNodes }

PopulatedDir(m, ri, o, sub) ==
    [p \in ModelPaths(m) |->
        CASE p = ModelDir(m) -> Dir
          [] p = RootInput(m) -> ri
          [] p = OutputPath(m) -> o
          [] p = OnnxDir(m) -> sub[1]
          [] p = SubInput(m) -> sub[2]
          [] p = SubLink(m) -> sub[3]
          [] OTHER -> Absent]

MissingDir(m) == [p \in ModelPaths(m) |-> Absent]

DirStates(m) ==
    {MissingDir(m)} \cup
    { PopulatedDir(m, ri, o, sub) :
        ri \in InputNodes, o \in OutputNodes, sub \in SubStates }

\* the tree under MODELS_DIR: one populated model directory at most
TreeOf(m, d) == [p \in Paths |-> IF p \in ModelPaths(m) THEN d[p] ELSE Absent]

Trees == UNION { { TreeOf(m, d) : d \in DirStates(m) } : m \in ModelNames }

\* the command lines: one to MaxArgs positional model names (none given means
\* the default, MODELS, which is one of them) and the three flags
RECURSIVE SeqsUpTo(_, _)
SeqsUpTo(S, n) ==
    IF n = 0 THEN {<<>>}
    ELSE LET shorter == SeqsUpTo(S, n - 1)
         IN  shorter \cup { Append(q, x) : q \in shorter, x \in S }

ArgLists == SeqsUpTo(ModelNames, MaxArgs) \ {<<>>}

Args ==
    [models : ArgLists, force : BOOLEAN, verify : BOOLEAN, list : BOOLEAN]

(***************************************************************************)
(* convert-to-onnx.py: configuration (lines 9-22).                         *)
(***************************************************************************)
\* MODELS of convert-to-onnx.py: (source_repo, output_name)
CONVERT_MODELS ==
    << <<"Ateeqq/ai-vs-human-image-detector", "ateeqq">>,
       <<"Organika/sdxl-detector", "sdxl_detector">>,
       <<"Hamzenium/ViT-Deepfake-Classifier", "hamzenium">> >>

EXISTING_ONNX == <<"dima806_ai_real", "smogy", "prithiv_v2">>

OutputNames == { CONVERT_MODELS[k][2] : k \in 1..Len(CONVERT_MODELS) }

\* main before its first statement
ConvertStart ==
    /\ cpc = "start"
    /\ cidx = 1
    /\ success_count = 0
    /\ fail_count = 0
    /\ deps = "unknown"
    /\ attempts = <<>>
    /\ exported = [n \in OutputNames |-> "none"]
    /\ cprinted = <<>>

NoArgs == [models |-> <<>>, force |-> FALSE, verify |-> FALSE, list |-> FALSE]

Init ==
    /\ fs \in Trees
    /\ args = NoArgs
    /\ pc = "idle"
    /\ idx = 1
    /\ success = 0
    /\ total_fp32 = 0
    /\ total_int8 = 0
    /\ printed = <<>>
    /\ results = <<>>
    /\ qpc = "idle"
    /\ input_path = NoPath
    /\ output_path = NoPath
    /\ input_size = 0
    /\ quantize_input = NoPath
    /\ calls = <<>>
    /\ out = <<>>
    /\ pre = fs
    /\ exc = "none"
    /\ ConvertStart

(***************************************************************************)
(* main: argument parsing and mode selection (lines 179-243).              *)
(***************************************************************************)
\* a faulty dispatch: --list is looked at last
Mode_listLast(a) ==
    IF a.force THEN "quantize"
    ELSE IF a.verify THEN "verify"
    ELSE IF a.list THEN "list" ELSE "quantize"

\* the branch main takes: --list first, then --verify, else quantize
Mode(a) ==
    IF a.list THEN "list" ELSE IF a.verify THEN "verify" ELSE "quantize"

\* The script is started: args = parser.parse_args(), the banner, and the
\* branch main takes.
ParseArgs ==
    /\ pc = "idle"
    /\ \E a \in Args :
        /\ args' = a
        /\ pc' = Mode(a)
    /\ printed' = <<"banner">>
    /\ UNCHANGED <<fs, idx, success, total_fp32, total_int8, results, localVars,
                   calls, out, pre, exc>>
    /\ UNCHANGED convertVars

\* The process ends, by returning from main or by an uncaught exception; its
\* memory is gone and the filesystem stays.  The script can be started again.
Exit ==
    /\ pc \in {"exit", "crashed"}
    /\ pc' = "idle"
    /\ args' = NoArgs
    /\ idx' = 1
    /\ success' = 0
    /\ total_fp32' = 0
    /\ total_int8' = 0
    /\ printed' = <<>>
    /\ results' = <<>>
    /\ exc' = "none"
    /\ calls' = <<>>
    /\ out' = <<>>
    /\ pre' = fs
    /\ UNCHANGED <<fs, localVars>>
    /\ UNCHANGED convertVars

\* (before - after) / before raises ZeroDivisionError
ZeroDivision(before) == before = 0

\* the guard main puts before the aggregate reduction
SummaryGuard(fp32, int8) == int8 > 0

(***************************************************************************)
(* main, --list (lines 211-230).                                           *)
(***************************************************************************)
\* one pass of "for model in MODELS"
ListModel ==
    /\ pc = "list"
    /\ idx <= Len(MODELS)
    /\ LET paths == get_model_paths(fs, MODELS[idx])
       IN  /\ total_fp32' = total_fp32 + get_model_size(fs, paths[1])
           /\ total_int8' = total_int8 + get_model_size(fs, paths[2])
    /\ idx' = idx + 1
    /\ printed' = Append(printed, "model")
    /\ UNCHANGED <<fs, args, pc, success, results, localVars, calls, out, pre, exc>>
    /\ UNCHANGED convertVars

\* the totals and the reduction line, then return
ListTotals ==
    /\ pc = "list"
    /\ idx > Len(MODELS)
    /\ IF SummaryGuard(total_fp32, total_int8)
       THEN IF ZeroDivision(total_fp32)
            THEN /\ exc' = "ZeroDivisionError"
                 /\ pc' = "crashed"
                 /\ printed' = printed \o <<"totals">>
            ELSE /\ exc' = exc
                 /\ pc' = "exit"
                 /\ printed' = printed \o <<"totals", "reduction">>
       ELSE /\ exc' = exc
            /\ pc' = "exit"
            /\ printed' = printed \o <<"totals">>
    /\ UNCHANGED <<fs, args, idx, success, total_fp32, total_int8, results,
                   localVars, calls, out, pre>>
    /\ UNCHANGED convertVars

(***************************************************************************)
(* verify_model (lines 146-176) and main, --verify (lines 232-241).        *)
(***************************************************************************)
\* whether ort.InferenceSession can load the node: never a truncated file
Loadable(node) == node.k = "file" /\ node.data = "int8"

\* a faulty verifier: the test of line 150 left out
OutputMissing_never(f, output) == FALSE

\* line 150: if not output_path.exists()
OutputMissing(f, output) == ~Exists(f, output)

\* one pass of "for model in args.models": the whole of verify_model
VerifyModel ==
    /\ pc = "verify"
    /\ idx <= Len(args.models)
    /\ LET m == args.models[idx]
           output == get_model_paths(fs, m)[2]
       IN  IF OutputMissing(fs, output)
           THEN /\ results' = Append(results, [model |-> m, ok |-> FALSE, how |-> "not_found"])
                /\ calls' = <<>>
                /\ success' = success
                /\ exc' = exc
           ELSE \E loaded \in BOOLEAN :
                /\ loaded => Loadable(Resolve(fs, output))
                /\ calls' = <<[fn |-> "InferenceSession", src |-> output,
                               dst |-> NoPath, raised |-> ~loaded]>>
                /\ results' = Append(results,
                       [model |-> m, ok |-> loaded,
                        how |-> IF loaded THEN "ok" ELSE "failed"])
                /\ success' = IF loaded THEN success + 1 ELSE success
                /\ exc' = IF loaded THEN exc ELSE "LoadError"
    /\ idx' = idx + 1
    /\ printed' = Append(printed, "model")
    /\ UNCHANGED <<fs, args, pc, total_fp32, total_int8, localVars, out, pre>>
    /\ UNCHANGED convertVars

VerifyDone ==
    /\ pc = "verify"
    /\ idx > Len(args.models)
    /\ printed' = Append(printed, "verified")
    /\ pc' = "exit"
    /\ UNCHANGED <<fs, args, idx, success, total_fp32, total_int8, results,
                   localVars, calls, out, pre, exc>>
    /\ UNCHANGED convertVars

(***************************************************************************)
(* quantize_model (lines 65-143), one action per stage.                    *)
(***************************************************************************)
\* a faulty skip test: the sense of --force inverted
SkipExisting_forceInverted(f, output, force) == Exists(f, output) /\ force

\* a skip test that would tell a partial output from a complete one
SkipExisting_completeOnly(f, output, force) ==
    Exists(f, output) /\ ~force /\ Resolve(f, output).data # "partial"

\* line 82: the output is already there and --force was not given
SkipExisting(f, output, force) == Exists(f, output) /\ ~force

\* line 92: preprocessed_path = input_path.parent / "model_preprocessed.onnx"
preprocessed_path(inp) == Parent(inp) \o <<"model_preprocessed.onnx">>

\* lines 100, 103: what the quantizer is given
QuantizeInput(raised, inp) == IF raised THEN inp ELSE preprocessed_path(inp)

\* lines 117-118: if preprocessed_path.exists(): preprocessed_path.unlink()
Cleanup(f, tmp) == IF Exists(f, tmp) THEN Unlink(f, tmp) ELSE f

\* line 127: onnx_dir = input_path.parent / "onnx"
\*           if "onnx" not in str(input_path) else input_path.parent
onnx_dir(inp) ==
    IF ~Contains(Str(inp), "onnx") THEN Parent(inp) \o <<"onnx">> ELSE Parent(inp)

\* line 129
quantized_link(inp) == onnx_dir(inp) \o <<"model_quantized.onnx">>

\* a faulty relink: the old alias is left where it is
RemoveOldLink_never(f, link) == f

\* lines 130-131: if quantized_link.is_symlink(): quantized_link.unlink()
RemoveOldLink(f, link) == IF IsSymlink(f, link) THEN Unlink(f, link) ELSE f

\* line 134: symlink_to raises FileExistsError when something is at the path
SymlinkRaises(f, link) == At(f, link) # Absent

\* line 134: quantized_link.symlink_to(rel_path)
Symlink(f, link, text) == [f EXCEPT ![link] = Link(text)]

\* the size quantize_dynamic gives its output: not empty
QuantizedSizes == 1..MaxSize

\* a faulty loop: the position is not advanced, the same model is taken again
Return_noAdvance(ok, how) ==
    /\ results' = Append(results, [model |-> args.models[idx], ok |-> ok, how |-> how])
    /\ success' = IF ok THEN success + 1 ELSE success
    /\ idx' = idx
    /\ qpc' = "idle"
    /\ input_path' = NoPath
    /\ output_path' = NoPath
    /\ input_size' = 0
    /\ quantize_input' = NoPath

\* a faulty loop: the first failing model ends the batch
Return_stopOnFailure(ok, how) ==
    /\ results' = Append(results, [model |-> args.models[idx], ok |-> ok, how |-> how])
    /\ success' = IF ok THEN success + 1 ELSE success
    /\ idx' = IF ok THEN idx + 1 ELSE Len(args.models) + 1
    /\ qpc' = "idle"
    /\ input_path' = NoPath
    /\ output_path' = NoPath
    /\ input_size' = 0
    /\ quantize_input' = NoPath

\* quantize_model returns to main's loop (lines 249-250): the counter, the next
\* list element
Return(ok, how) ==
    /\ results' = Append(results, [model |-> args.models[idx], ok |-> ok, how |-> how])
    /\ success' = IF ok THEN success + 1 ELSE success
    /\ idx' = idx + 1
    /\ qpc' = "idle"
    /\ input_path' = NoPath
    /\ output_path' = NoPath
    /\ input_size' = 0
    /\ quantize_input' = NoPath

\* a faulty entry: the test of line 78 left out
InputMissing_never(f, inp) == FALSE

\* line 78: if not input_path.exists()
InputMissing(f, inp) == ~Exists(f, inp)

\* lines 76-87: the paths, the missing-input and the already-quantized returns
QStart ==
    /\ pc = "quantize"
    /\ qpc = "idle"
    /\ idx <= Len(args.models)
    /\ pre' = fs
    /\ calls' = <<>>
    /\ LET paths == get_model_paths(fs, args.models[idx])
       IN  IF InputMissing(fs, paths[1])
           THEN /\ out' = <<"ERROR: Model not found">>
                /\ Return(FALSE, "not_found")
           ELSE IF SkipExisting(fs, paths[2], args.force)
           THEN /\ out' = <<"SKIP">>
                /\ Return(TRUE, "skip")
           ELSE /\ out' = <<"INFO: Input">>
                /\ input_path' = paths[1]
                /\ output_path' = paths[2]
                /\ input_size' = get_model_size(fs, paths[1])
                /\ qpc' = "preprocess"
                /\ UNCHANGED <<results, success, idx, quantize_input>>
    /\ UNCHANGED <<fs, args, pc, total_fp32, total_int8, printed, exc>>
    /\ UNCHANGED convertVars

\* a faulty stage order: the symlink update placed before the quantization
StageAfterPreprocess_relink == "relink"

\* lines 105-107: after the preprocessing try/except, control falls into the
\* quantization step
StageAfterPreprocess == "quantize"

\* lines 91-103: quant_pre_process writes the temporary file or raises; the
\* inner handler falls back to the original input
QPreprocess ==
    /\ qpc = "preprocess"
    /\ \E raised \in BOOLEAN :
        /\ calls' = Append(calls,
               [fn |-> "quant_pre_process", src |-> input_path,
                dst |-> preprocessed_path(input_path), raised |-> raised])
        /\ fs' = IF raised THEN fs
                 ELSE WriteFile(fs, preprocessed_path(input_path), input_size, "prep")
        /\ out' = out \o (IF raised THEN <<"STEP: Preprocessing", "WARN: Preprocessing failed">>
                          ELSE <<"STEP: Preprocessing">>)
        /\ exc' = IF raised THEN "PreprocessError" ELSE exc
        /\ quantize_input' = QuantizeInput(raised, input_path)
    /\ qpc' = StageAfterPreprocess
    /\ UNCHANGED <<mainVars, input_path, output_path, input_size, pre>>
    /\ UNCHANGED convertVars

\* lines 106-114 and, when quantize_dynamic raises, the handler of lines
\* 139-143.  A raising quantizer may have written part of its output.
QQuantize ==
    /\ qpc = "quantize"
    /\ \E raised \in BOOLEAN :
        /\ calls' = Append(calls,
               [fn |-> "quantize_dynamic", src |-> quantize_input,
                dst |-> output_path, raised |-> raised])
        /\ IF raised
           THEN /\ \/ fs' = fs
                   \/ \E s \in Sizes : fs' = WriteFile(fs, output_path, s, "partial")
                /\ out' = out \o <<"STEP: Quantizing", "ERROR: Quantization failed">>
                /\ exc' = "QuantizeError"
                /\ Return(FALSE, "failed")
                /\ UNCHANGED <<args, pc, total_fp32, total_int8, printed>>
           ELSE /\ \E s \in QuantizedSizes : fs' = WriteFile(fs, output_path, s, "int8")
                /\ out' = out \o <<"STEP: Quantizing">>
                /\ qpc' = "cleanup"
                /\ UNCHANGED <<mainVars, input_path, output_path, input_size,
                               quantize_input, exc>>
    /\ UNCHANGED pre
    /\ UNCHANGED convertVars

\* lines 116-124: the temporary file is removed, the sizes are reported; the
\* reduction divides by input_size, and a ZeroDivisionError goes to the handler
QCleanup ==
    /\ qpc = "cleanup"
    /\ fs' = Cleanup(fs, preprocessed_path(input_path))
    /\ IF ZeroDivision(input_size)
       THEN /\ exc' = "ZeroDivisionError"
            /\ out' = out \o <<"ERROR: Quantization failed">>
            /\ Return(FALSE, "failed")
            /\ UNCHANGED <<args, pc, total_fp32, total_int8, printed>>
       ELSE /\ out' = out \o <<"OK: Output", "OK: Size reduction">>
            /\ qpc' = "relink"
            /\ UNCHANGED <<mainVars, input_path, output_path, input_size,
                           quantize_input, exc>>
    /\ UNCHANGED <<calls, pre>>
    /\ UNCHANGED convertVars

\* lines 126-137: the symlink is replaced, then return True; a FileExistsError
\* of symlink_to goes to the handler
QRelink ==
    /\ qpc = "relink"
    /\ LET dir == onnx_dir(input_path)
           link == quantized_link(input_path)
           cleared == RemoveOldLink(fs, link)
       IN  IF ~Exists(fs, dir)
           THEN /\ fs' = fs
                /\ out' = out
                /\ exc' = exc
                /\ Return(TRUE, "ok")
           ELSE IF SymlinkRaises(cleared, link)
           THEN /\ fs' = cleared
                /\ exc' = "FileExistsError"
                /\ out' = out \o <<"ERROR: Quantization failed">>
                /\ Return(FALSE, "failed")
           ELSE /\ fs' = Symlink(cleared, link, relpath(output_path, dir))
                /\ out' = out \o <<"OK: Updated symlink">>
                /\ exc' = exc
                /\ Return(TRUE, "ok")
    /\ UNCHANGED <<args, pc, total_fp32, total_int8, printed, calls, pre>>
    /\ UNCHANGED convertVars

(***************************************************************************)
(* main, quantize mode: after the loop (lines 252-273).                    *)
(***************************************************************************)
\* lines 252-253: "Quantization complete: success/len"
QuantizeComplete ==
    /\ pc = "quantize"
    /\ qpc = "idle"
    /\ idx > Len(args.models)
    /\ printed' = Append(printed, "complete")
    /\ pc' = "summary"
    /\ idx' = 1
    /\ UNCHANGED <<fs, args, success, total_fp32, total_int8, results,
                   localVars, calls, out, pre, exc>>
    /\ UNCHANGED convertVars

\* lines 260-265: one pass of the size summary
SummaryModel ==
    /\ pc = "summary"
    /\ idx <= Len(args.models)
    /\ LET paths == get_model_paths(fs, args.models[idx])
       IN  /\ total_fp32' = total_fp32 + get_model_size(fs, paths[1])
           /\ total_int8' = total_int8 + get_model_size(fs, paths[2])
    /\ idx' = idx + 1
    /\ UNCHANGED <<fs, args, pc, success, printed, results, localVars, calls,
                   out, pre, exc>>
    /\ UNCHANGED convertVars

\* lines 267-273: the totals, the guarded reduction, the closing hint
SummaryTotals ==
    /\ pc = "summary"
    /\ idx > Len(args.models)
    /\ IF SummaryGuard(total_fp32, total_int8)
       THEN IF ZeroDivision(total_fp32)
            THEN /\ exc' = "ZeroDivisionError"
                 /\ pc' = "crashed"
                 /\ printed' = printed \o <<"totals">>
            ELSE /\ exc' = exc
                 /\ pc' = "exit"
                 /\ printed' = printed \o <<"totals", "reduction", "hint">>
       ELSE /\ exc' = exc
            /\ pc' = "exit"
            /\ printed' = printed \o <<"totals", "hint">>
    /\ UNCHANGED <<fs, args, idx, success, total_fp32, total_int8, results,
                   localVars, calls, out, pre>>
    /\ UNCHANGED convertVars

Next ==
    \/ ParseArgs
    \/ Exit
    \/ ListModel
    \/ ListTotals
    \/ VerifyModel
    \/ VerifyDone
    \/ QStart
    \/ QPreprocess
    \/ QQuantize
    \/ QCleanup
    \/ QRelink
    \/ QuantizeComplete
    \/ SummaryModel
    \/ SummaryTotals

Spec == Init /\ [][Next]_vars

\* The same program started on a tree that holds no alias yet.
InitNoAlias ==
    /\ Init
    /\ \A m \in ModelNames : fs[SubLink(m)] = Absent /\ fs[RootLink(m)] = Absent

SpecNoAlias == InitNoAlias /\ [][Next]_vars

\* The script is one sequential process and its collaborators return or
\* raise: a stage of quantize_model that can complete does complete.
SpecFair ==
    /\ Init
    /\ [][Next]_vars
    /\ WF_vars(QStart)
    /\ WF_vars(QPreprocess)
    /\ WF_vars(QQuantize)
    /\ WF_vars(QCleanup)
    /\ WF_vars(QRelink)

(***************************************************************************)
(* convert-to-onnx.py: main and convert_model.  The exporter is a          *)
(* subprocess: it returns with a return code or subprocess.run raises, and *)
(* only a return code of 0 says its output directory holds the model.      *)
(***************************************************************************)
ReturnCodes == 0..MaxReturnCode

\* how subprocess.run of lines 48-54 may end
ExporterOutcomes ==
    { [raised |-> FALSE, returncode |-> rc] : rc \in ReturnCodes }
        \cup { [raised |-> TRUE, returncode |-> "none"] }

\* what the exporter leaves in <OUTPUT_DIR>/<output_name>/onnx
ExporterLeaves(o, before) ==
    IF ~o.raised /\ o.returncode = 0 THEN {"model"} ELSE {before, "partial"}

\* a faulty convert_model: the return code is not looked at
convert_model_ignoresStatus(returncode) == TRUE

\* lines 56-65: False when result.returncode != 0, True otherwise
convert_model(returncode) == returncode = 0

\* lines 73-80: optimum is importable, or install_deps installs it; pip
\* failing makes subprocess.run(check=True) raise, and nothing catches it
CheckOptimum ==
    /\ cpc = "start"
    /\ \E d \in {"present", "installed", "install_failed"} :
        /\ deps' = d
        /\ cpc' = IF d = "install_failed" THEN "crashed" ELSE "loop"
    /\ UNCHANGED <<cidx, success_count, fail_count, attempts, exported, cprinted>>
    /\ UNCHANGED quantizeVars

\* lines 82-90: one pass of "for source_repo, output_name in MODELS"
ConvertModel ==
    /\ cpc = "loop"
    /\ cidx <= Len(CONVERT_MODELS)
    /\ LET source_repo == CONVERT_MODELS[cidx][1]
           output_name == CONVERT_MODELS[cidx][2]
       IN  \E o \in ExporterOutcomes :
           \E left \in ExporterLeaves(o, exported[output_name]) :
               /\ attempts' = Append(attempts,
                      [source_repo |-> source_repo, output_name |-> output_name,
                       raised |-> o.raised, returncode |-> o.returncode])
               /\ exported' = [exported EXCEPT ![output_name] = left]
               /\ IF o.raised
                  THEN /\ fail_count' = fail_count + 1
                       /\ success_count' = success_count
                  ELSE IF convert_model(o.returncode)
                  THEN /\ success_count' = success_count + 1
                       /\ fail_count' = fail_count
                  ELSE /\ fail_count' = fail_count + 1
                       /\ success_count' = success_count
    /\ cidx' = cidx + 1
    /\ UNCHANGED <<cpc, deps, cprinted>>
    /\ UNCHANGED quantizeVars

\* lines 92-102: the summary
ConvertSummary ==
    /\ cpc = "loop"
    /\ cidx > Len(CONVERT_MODELS)
    /\ cprinted' =
          <<[successful |-> success_count, failed |-> fail_count,
             already |-> Len(EXISTING_ONNX),
             total |-> success_count + Len(EXISTING_ONNX)]>>
            \o (IF success_count > 0 THEN <<"ready">> ELSE <<>>)
    /\ cpc' = "done"
    /\ UNCHANGED <<cidx, success_count, fail_count, deps, attempts, exported>>
    /\ UNCHANGED quantizeVars

NextConvert ==
    \/ CheckOptimum
    \/ ConvertModel
    \/ ConvertSummary

\* convert-to-onnx.py started; quantize-models.py is not run
InitConvert ==
    /\ Init
    /\ fs = [p \in Paths |-> Absent]

SpecConvert == InitConvert /\ [][NextConvert]_vars

(***************************************************************************)
(* Vocabulary of the properties.                                           *)
(***************************************************************************)
\* main runs in quantize mode
QuantizeMode == pc # "idle" /\ Mode(args) = "quantize"

\* a call of quantize_model has returned and no later call has begun
QReturned == QuantizeMode /\ qpc = "idle" /\ results # <<>>

\* what the last call returned
Last == results[Len(results)]

\* the input and the temporary path of the last call, as it resolved them
LastInput == InputPath(pre, Last.model)
LastTemp == preprocessed_path(LastInput)

\* the collaborator invocations of one kind in the current or last call
CallsOf(fn) == { k \in 1..Len(calls) : calls[k].fn = fn }

QuantizerSucceeded ==
    \E k \in CallsOf("quantize_dynamic") : ~calls[k].raised

\* the aliases of the tree: what lies at each model_quantized.onnx
AliasState(f) ==
    [m \in ModelNames |-> <<At(f, SubLink(m)), At(f, RootLink(m))>>]

(***************************************************************************)
(* C1.  On every exit path of quantize_model that reached the preprocess   *)
(* stage, the temporary file model_preprocessed.onnx beside the input does *)
(* not exist when quantize_model returns.  The code removes it only after  *)
(* quantize_dynamic has returned (lines 116-118): when the quantizer       *)
(* raises after a preprocessing that succeeded, the file stays.            *)
(***************************************************************************)
C1_TempRemovedOnEveryExit ==
    (QReturned /\ CallsOf("quant_pre_process") # {}) => ~Exists(fs, LastTemp)

(***************************************************************************)
(* C2.  As claimed: whenever model_int8.onnx exists at entry and force is  *)
(* false, quantize_model returns True, invokes no collaborator and leaves  *)
(* the tree as it was; and the second of two runs without force on the     *)
(* same model leaves the tree as the first left it.  The code tests the    *)
(* input first (line 78): with the input missing it returns False.         *)
(***************************************************************************)
C2_SkipWheneverOutputExists ==
    /\ (QReturned /\ Exists(pre, OutputPath(Last.model)) /\ ~args.force)
          => (Last.ok /\ calls = <<>> /\ fs = pre)
    /\ (QReturned /\ ~args.force /\ Len(results) >= 2
            /\ results[Len(results) - 1].model = Last.model)
          => fs = pre

(***************************************************************************)
(* C2, amended.  If the input exists, model_int8.onnx exists and force is  *)
(* false, quantize_model returns True as a skip, no stage is entered, no   *)
(* collaborator is invoked and the tree (output artifact and aliases) is   *)
(* unchanged; and after a run without force that returned success, a       *)
(* second run without force on the same model is such a skip.              *)
(***************************************************************************)
C2_SkipIdempotent ==
    /\ (QReturned /\ Exists(pre, LastInput) /\ Exists(pre, OutputPath(Last.model))
            /\ ~args.force)
          => (Last.ok /\ Last.how = "skip" /\ calls = <<>> /\ fs = pre)
    /\ (QuantizeMode /\ qpc # "idle")
          => ~(Exists(pre, OutputPath(args.models[idx])) /\ ~args.force)
    /\ (QReturned /\ ~args.force /\ Len(results) >= 2
            /\ results[Len(results) - 1].model = Last.model
            /\ results[Len(results) - 1].ok)
          => (Last.ok /\ Last.how = "skip" /\ calls = <<>> /\ fs = pre)

\* a model quantized by the first run and skipped by the second
C2_Witness ==
    /\ QReturned
    /\ ~args.force
    /\ Len(results) = 2
    /\ results[1].model = results[2].model
    /\ results[1].how = "ok"
    /\ results[2].how = "skip"
    /\ Exists(fs, OutputPath(Last.model))

(***************************************************************************)
(* C3.  The quantizer is never invoked before preprocessing was attempted; *)
(* when the preprocessor raised the quantizer is still invoked, on the     *)
(* original input, and when it succeeded, on the preprocessed path; and if *)
(* the quantizer succeeds after a preprocessing failure the model is       *)
(* reported as succeeded.  The last part fails where the code after the    *)
(* quantizer raises (the division of line 121, the symlink_to of line      *)
(* 134): quantize_model then returns False.                                *)
(***************************************************************************)
C3_PreprocessNeverBlocks ==
    /\ \A k \in CallsOf("quantize_dynamic") :
          k > 1 /\ calls[k - 1].fn = "quant_pre_process"
    /\ (QReturned /\ CallsOf("quant_pre_process") # {})
          => /\ Len(calls) = 2
             /\ calls[1].fn = "quant_pre_process"
             /\ calls[2].fn = "quantize_dynamic"
             /\ calls[2].src = (IF calls[1].raised THEN LastInput ELSE LastTemp)
             /\ (calls[1].raised /\ ~calls[2].raised) => Last.ok

(***************************************************************************)
(* C4.  In quantize mode a failing model never aborts the batch: the list  *)
(* elements are processed one by one in list order, each exactly once,     *)
(* whatever the earlier ones returned; main does not end inside the loop;  *)
(* when the loop is over every element has been processed, and the success *)
(* counter equals the number of elements whose call returned True.         *)
(***************************************************************************)
C4_BatchNeverAborted ==
    QuantizeMode =>
        /\ Len(results) <= Len(args.models)
        /\ \A k \in 1..Len(results) : results[k].model = args.models[k]
        /\ success = Cardinality({ k \in 1..Len(results) : results[k].ok })
        /\ (pc = "quantize" => idx = Len(results) + 1)
        /\ (pc \in {"summary", "exit", "crashed"}
              => (Len(results) = Len(args.models) /\ printed[2] = "complete"))

\* a model that failed on a quantizer fault, and the next one processed all
\* the same, with success
C4_Witness ==
    /\ QuantizeMode
    /\ pc = "summary"
    /\ Len(results) = 2
    /\ results[1].how = "failed"
    /\ results[2].how = "ok"
    /\ success = 1

(***************************************************************************)
(* C5.  After a non-skipped successful quantization of model M the alias   *)
(* is <root>/M/onnx/model_quantized.onnx, a relative symlink with text     *)
(* ../model_int8.onnx resolving to <root>/M/model_int8.onnx, in both input *)
(* layouts, and no alias is made at another path.  Line 127 looks for      *)
(* "onnx" in str(input_path), which the file name model.onnx always holds: *)
(* with the input at <root>/M/model.onnx the link is made at               *)
(* <root>/M/model_quantized.onnx with text model_int8.onnx.                *)
(***************************************************************************)
C5_AliasInOnnxSubdirectory ==
    (QReturned /\ Last.how = "ok") =>
        /\ At(fs, SubLink(Last.model)) = Link(<<"..", "model_int8.onnx">>)
        /\ Normalize(OnnxDir(Last.model), At(fs, SubLink(Last.model)).to)
              = OutputPath(Last.model)
        /\ \A p \in Paths \ {SubLink(Last.model)} :
              IsSymlink(fs, p) => IsSymlink(pre, p)

(***************************************************************************)
(* C6.  An alias is removed or made only after the quantizer has succeeded *)
(* in the same call: while and after a call in which quantize_dynamic has  *)
(* not returned normally (missing input, skip, quantizer failure) every    *)
(* alias is as it was when the call was entered; outside quantize_model    *)
(* no alias changes either.                                                *)
(***************************************************************************)
C6_AliasOnlyAfterQuantizerSuccess ==
    AliasState(fs) # AliasState(pre) => (QuantizeMode /\ QuantizerSucceeded)

\* a forced run over an existing alias in which the quantizer raised
C6_Witness ==
    /\ QReturned
    /\ args.force
    /\ Last.how = "failed"
    /\ \E k \in CallsOf("quantize_dynamic") : calls[k].raised
    /\ IsSymlink(fs, SubLink(Last.model))
    /\ AliasState(fs) = AliasState(pre)

(***************************************************************************)
(* C7.  Starting from a tree without aliases, after any sequence of runs,  *)
(* whenever quantize_model returns True each alias path either holds       *)
(* nothing or holds a symlink that resolves to the model's existing        *)
(* model_int8.onnx.                                                        *)
(***************************************************************************)
AliasValid(f, m, link) ==
    \/ At(f, link) = Absent
    \/ /\ IsSymlink(f, link)
       /\ Normalize(Parent(link), At(f, link).to) = OutputPath(m)
       /\ At(f, OutputPath(m)).k = "file"

C7_AliasNeverDangling ==
    (QReturned /\ Last.ok) =>
        \A m \in ModelNames :
            AliasValid(fs, m, SubLink(m)) /\ AliasValid(fs, m, RootLink(m))

\* a success over an alias made by an earlier run, in the onnx/ layout
C7_Witness ==
    /\ QReturned
    /\ Last.ok
    /\ IsSymlink(pre, SubLink(Last.model))
    /\ IsSymlink(fs, SubLink(Last.model))
    /\ Exists(fs, SubLink(Last.model))

(***************************************************************************)
(* C8.  In quantize mode no filesystem state makes the run end with an     *)
(* uncaught fault before or during the summary.  The reduction of line 270 *)
(* is guarded by total_int8 > 0 only: with inputs missing and outputs      *)
(* present total_fp32 is 0 and the division raises, uncaught.              *)
(***************************************************************************)
C8_SummaryAlwaysReached == QuantizeMode => pc # "crashed"

(***************************************************************************)
(* C9.  No size-reduction percentage is ever computed with before = 0:     *)
(* no ZeroDivisionError is raised in quantize_model, in list mode or in    *)
(* the quantize summary.  None of the three divisions is guarded against   *)
(* a zero divisor.                                                         *)
(***************************************************************************)
C9_NoDivisionByZero == exc # "ZeroDivisionError"

(***************************************************************************)
(* C10.  When --list is given, whatever the other flags and the model      *)
(* names, the tree stays as it was when the script started, and no         *)
(* collaborator is invoked.                                                *)
(***************************************************************************)
C10_ListModeWritesNothing ==
    (pc # "idle" /\ args.list) =>
        /\ fs = pre
        /\ calls = <<>>
        /\ qpc = "idle"
        /\ results = <<>>
        /\ pc \in {"list", "exit", "crashed"}

\* --list with --force and --verify on a tree where a quantize run would write
C10_Witness ==
    /\ args.list
    /\ args.force
    /\ args.verify
    /\ pc = "exit"
    /\ Exists(fs, InputPath(fs, args.models[1]))
    /\ ~Exists(fs, OutputPath(args.models[1]))

(***************************************************************************)
(* C11.  A model whose input is at neither candidate location is reported  *)
(* failed with no collaborator invoked and the tree untouched; and a batch *)
(* of only such a model ends with one failure, no success and the summary  *)
(* printed to its last line.  The first part holds; with model_int8.onnx   *)
(* present beside the missing input the summary's division of line 270     *)
(* raises and the run ends before the summary is complete.                 *)
(***************************************************************************)
C11_MissingInputReported ==
    /\ (QReturned /\ ~Exists(pre, RootInput(Last.model))
                  /\ ~Exists(pre, SubInput(Last.model)))
          => (~Last.ok /\ calls = <<>> /\ fs = pre)
    /\ (QuantizeMode /\ Len(args.models) = 1
            /\ ~Exists(fs, RootInput(args.models[1]))
            /\ ~Exists(fs, SubInput(args.models[1])))
          => /\ pc # "crashed"
             /\ (pc = "exit" => (/\ success = 0
                                 /\ Len(results) = 1
                                 /\ ~results[1].ok
                                 /\ printed[Len(printed)] = "hint"))

(***************************************************************************)
(* C12.  Verification is read-only and fails on absence: in verify mode    *)
(* the tree stays as the run found it; a model whose model_int8.onnx does  *)
(* not exist is reported failed with no inference session started; a       *)
(* session that raises on load gives failure; success is reported only     *)
(* when the session was created; and every requested model is verified,    *)
(* in order, whatever the earlier ones returned.                           *)
(***************************************************************************)
VerifyMode == pc # "idle" /\ Mode(args) = "verify"

C12_VerifyReadOnly ==
    VerifyMode =>
        /\ fs = pre
        /\ pc # "crashed"
        /\ Len(results) <= Len(args.models)
        /\ \A k \in 1..Len(results) : results[k].model = args.models[k]
        /\ success = Cardinality({ k \in 1..Len(results) : results[k].ok })
        /\ (pc = "exit" => Len(results) = Len(args.models))
        /\ (results # <<>> =>
              /\ (~Exists(fs, <<"models", Last.model, "model_int8.onnx">>)
                    => (~Last.ok /\ calls = <<>>))
              /\ (Last.ok <=> (/\ Len(calls) = 1
                               /\ calls[1].fn = "InferenceSession"
                               /\ ~calls[1].raised))
              /\ Len(calls) <= 1)

\* a model without output reported failed, and the next one loaded all the same
C12_Witness ==
    /\ VerifyMode
    /\ pc = "exit"
    /\ Len(results) = 2
    /\ results[1].how = "not_found"
    /\ ~Exists(fs, <<"models", results[1].model, "model_int8.onnx">>)
    /\ results[2].ok
    /\ calls # <<>>

(***************************************************************************)
(* C13.  Artifact Locator: for every model name and every tree,            *)
(* get_model_paths gives <root>/M/model.onnx as input when it exists and   *)
(* <root>/M/onnx/model.onnx otherwise, also when neither exists; the       *)
(* output is <root>/M/model_int8.onnx whether it exists or not; and the    *)
(* paths quantize_model works on are the ones so located in the tree it    *)
(* was called on.                                                          *)
(***************************************************************************)
C13_LocatorPrimaryThenFallback ==
    /\ \A m \in ModelNames :
          LET paths == get_model_paths(fs, m)
              primary == <<"models", m, "model.onnx">>
              fallback == <<"models", m, "onnx", "model.onnx">>
          IN  /\ Len(paths) = 2
              /\ (Exists(fs, primary) => paths[1] = primary)
              /\ (~Exists(fs, primary) => paths[1] = fallback)
              /\ paths[2] = <<"models", m, "model_int8.onnx">>
    /\ (QuantizeMode /\ qpc # "idle") =>
          LET m == args.models[idx]
          IN  /\ input_path = (IF Exists(pre, <<"models", m, "model.onnx">>)
                               THEN <<"models", m, "model.onnx">>
                               ELSE <<"models", m, "onnx", "model.onnx">>)
              /\ output_path = <<"models", m, "model_int8.onnx">>


\* both candidates present, and quantize_model at work on the primary one
C13_Witness ==
    /\ QuantizeMode
    /\ qpc = "quantize"
    /\ Exists(pre, <<"models", args.models[idx], "model.onnx">>)
    /\ Exists(pre, <<"models", args.models[idx], "onnx", "model.onnx">>)
    /\ input_path = <<"models", args.models[idx], "model.onnx">>
    /\ get_model_paths(fs, args.models[idx])[1] = input_path


(***************************************************************************)
(* C19.  A reported success implies the artifact is there: whenever        *)
(* quantize_model returns True, skipped or freshly quantized,              *)
(* <root>/M/model_int8.onnx exists at the return and the input of M        *)
(* existed, at one of its two locations, when the call began; a model      *)
(* whose input is missing is reported failed even when model_int8.onnx     *)
(* exists and force is false.                                              *)
(***************************************************************************)
C19_SuccessImpliesArtifact ==
    QReturned =>
        LET m == Last.model
            hadInput == \/ Exists(pre, <<"models", m, "model.onnx">>)
                        \/ Exists(pre, <<"models", m, "onnx", "model.onnx">>)
        IN  /\ Last.ok => (Exists(fs, <<"models", m, "model_int8.onnx">>) /\ hadInput)
            /\ ~hadInput => (~Last.ok /\ Last.how = "not_found")

\* an output without an input, no force: reported failed, not skipped
C19_Witness ==
    /\ QReturned
    /\ ~args.force
    /\ ~Last.ok
    /\ Exists(pre, <<"models", Last.model, "model_int8.onnx">>)
    /\ ~Exists(pre, <<"models", Last.model, "model.onnx">>)
    /\ ~Exists(pre, <<"models", Last.model, "onnx", "model.onnx">>)


(***************************************************************************)
(* C16.  The skip test does not tell a partial output from a complete one: *)
(* when a failed quantizer call has left a partial model_int8.onnx, a      *)
(* following call without force returns success as a skip, invokes no      *)
(* collaborator and leaves the partial file in place; a following call     *)
(* with force invokes the quantizer again, and when the quantizer          *)
(* completes the output is the one it wrote, no longer the partial file.   *)
(***************************************************************************)
C16_PartialOutputSkipped ==
    (QReturned /\ At(pre, <<"models", Last.model, "model_int8.onnx">>).data = "partial")
        => LET output == <<"models", Last.model, "model_int8.onnx">>
           IN  IF ~args.force
               THEN /\ Last.ok
                    /\ Last.how = "skip"
                    /\ calls = <<>>
                    /\ fs = pre
               ELSE /\ CallsOf("quantize_dynamic") # {}
                    /\ QuantizerSucceeded => At(fs, output).data = "int8"
                    /\ Last.how # "skip"

\* the quantizer failed leaving a partial file, and the next call without
\* force on the same model took it for complete
C16_Witness ==
    /\ QReturned
    /\ ~args.force
    /\ Len(results) = 2
    /\ results[1].how = "failed"
    /\ results[2].how = "skip"
    /\ results[1].model = results[2].model
    /\ At(fs, <<"models", Last.model, "model_int8.onnx">>).data = "partial"


(***************************************************************************)
(* C17.  Relinking is idempotent and replaces a prior alias.  The alias    *)
(* path is the one the call computes (line 129).  When two consecutive     *)
(* forced calls on the same model both return success after quantizing,    *)
(* the second leaves every alias as the first left it; and when a symlink  *)
(* is at the alias path at entry, whatever its target, and the quantizer   *)
(* completes on a non-empty input, the call does not fail on the old       *)
(* alias: it returns success and the alias path holds a symlink that       *)
(* resolves to the model's model_int8.onnx.                                *)
(***************************************************************************)
C17_RelinkIdempotent ==
    QReturned =>
        LET m == Last.model
            link == quantized_link(LastInput)
        IN  /\ (/\ args.force
                /\ Len(results) >= 2
                /\ results[Len(results) - 1].model = m
                /\ results[Len(results) - 1].how = "ok"
                /\ Last.how = "ok")
                  => AliasState(fs) = AliasState(pre)
            /\ (/\ QuantizerSucceeded
                /\ IsSymlink(pre, link)
                /\ get_model_size(pre, LastInput) > 0)
                  => /\ Last.ok
                     /\ IsSymlink(fs, link)
                     /\ Normalize(Parent(link), At(fs, link).to)
                           = <<"models", m, "model_int8.onnx">>

\* the second of two forced successful calls, over the alias the first made
C17_Witness ==
    /\ QReturned
    /\ args.force
    /\ Len(results) = 2
    /\ results[1].model = results[2].model
    /\ results[1].how = "ok"
    /\ results[2].how = "ok"
    /\ IsSymlink(pre, quantized_link(LastInput))
    /\ IsSymlink(fs, quantized_link(LastInput))


(***************************************************************************)
(* C18.  The reported result follows the quantizer's outcome: whenever the *)
(* input exists and quantize_dynamic completes without raising,            *)
(* quantize_model returns True, for every prior tree, an input of size 0   *)
(* and a non-symlink file at the alias path included.  Lines 117-135 run   *)
(* inside the try of the quantizer call: the division of line 121 raises   *)
(* on an input of 0 bytes and symlink_to of line 134 raises on a regular   *)
(* file at the alias path, and the handler of lines 139-143 returns False. *)
(***************************************************************************)
C18_ResultFollowsQuantizer ==
    (QReturned /\ Exists(pre, LastInput) /\ QuantizerSucceeded) => Last.ok


(***************************************************************************)
(* C14.  In the converter a non-success status of the exporter, a return   *)
(* code other than 0 or an exception raised, ends only that model's        *)
(* conversion: the configured models are attempted one by one in order,    *)
(* each once, whatever the earlier attempts gave; each attempt whose       *)
(* exporter did not succeed is counted failed and each other one           *)
(* successful; no exporter outcome ends main; and at the summary           *)
(* success_count + fail_count is the number of configured models.          *)
(***************************************************************************)
ExportFailed(a) == a.raised \/ a.returncode # 0

C14_ExportFailureAbortsOneModel ==
    /\ Len(attempts) <= Len(CONVERT_MODELS)
    /\ \A k \in 1..Len(attempts) :
          /\ attempts[k].source_repo = CONVERT_MODELS[k][1]
          /\ attempts[k].output_name = CONVERT_MODELS[k][2]
    /\ fail_count = Cardinality({ k \in 1..Len(attempts) : ExportFailed(attempts[k]) })
    /\ success_count
          = Cardinality({ k \in 1..Len(attempts) : ~ExportFailed(attempts[k]) })
    /\ (cpc = "loop" => cidx = Len(attempts) + 1)
    /\ (cpc = "crashed" => attempts = <<>>)
    /\ (cpc = "done" =>
          /\ Len(attempts) = Len(CONVERT_MODELS)
          /\ success_count + fail_count = Len(CONVERT_MODELS)
          /\ cprinted[1].successful = success_count
          /\ cprinted[1].failed = fail_count)

\* an exporter that raised, one that returned non-zero, and the third model
\* converted all the same
C14_Witness ==
    /\ cpc = "done"
    /\ attempts[1].raised
    /\ ~attempts[2].raised
    /\ attempts[2].returncode # 0
    /\ ~ExportFailed(attempts[3])
    /\ success_count = 1
    /\ fail_count = 2


(***************************************************************************)
(* C15.  Batch Orchestrator state machine.  The state of the k-th          *)
(* requested model is read off main's loop: PENDING before its call of     *)
(* quantize_model, RUNNING inside it, and SUCCEEDED, FAILED or SKIPPED by  *)
(* what the call returned.  At most one model is RUNNING; model k+1 has    *)
(* left PENDING only if model k is terminal; a model never goes back to    *)
(* PENDING and never leaves a terminal state, nor changes it; and when the *)
(* stages that can complete do complete, every requested model reaches a   *)
(* terminal state.                                                         *)
(***************************************************************************)
Status(k) ==
    IF k = idx /\ qpc # "idle" THEN "RUNNING"
    ELSE IF k <= Len(results)
         THEN (IF results[k].how = "skip" THEN "SKIPPED"
               ELSE IF results[k].ok THEN "SUCCEEDED" ELSE "FAILED")
    ELSE "PENDING"

Terminal(st) == st \in {"SUCCEEDED", "FAILED", "SKIPPED"}

AllTerminal == \A k \in 1..Len(args.models) : Terminal(Status(k))

C15_StatesOrdered ==
    QuantizeMode =>
        /\ Cardinality({ k \in 1..Len(args.models) : Status(k) = "RUNNING" }) <= 1
        /\ \A k \in 1..(Len(args.models) - 1) :
              Status(k + 1) # "PENDING" => Terminal(Status(k))
        /\ (qpc # "idle" => (pc = "quantize" /\ Len(results) = idx - 1))
        /\ Len(results) <= Len(args.models)
        /\ (pc \in {"summary", "exit", "crashed"} => AllTerminal)

C15_StatesStepwise ==
    (QuantizeMode /\ QuantizeMode') =>
        \A k \in 1..Len(args.models) :
            /\ Terminal(Status(k)) => Status(k)' = Status(k)
            /\ Status(k) = "RUNNING" => Status(k)' # "PENDING"

C15_BatchStateMachine ==
    /\ []C15_StatesOrdered
    /\ [][C15_StatesStepwise]_vars
    /\ (QuantizeMode /\ pc = "quantize") ~> (QuantizeMode /\ AllTerminal)

\* the first model failed, the second one at work
C15_Witness ==
    /\ QuantizeMode
    /\ Len(args.models) = 2
    /\ Status(1) = "FAILED"
    /\ Status(2) = "RUNNING"
    /\ qpc = "quantize"

=============================================================================
